---- MODULE Spec2Model ----
(***************************************************************************)
(* Model of roll20_api_scripts/createNPC.js: the "!create-npc" chat        *)
(* command handler, which decodes a JSON descriptor, validates it and      *)
(* materializes a character with its attribute and ability records in the  *)
(* host's record store.                                                    *)
(*                                                                         *)
(* The host runs a handler to completion before it delivers the next       *)
(* event, so one delivery of a chat message is one action.  The handler    *)
(* itself is the operator handleInput, computed statement by statement as  *)
(* the code runs: every createObj call is one entry of the store, in call  *)
(* order, and a thrown exception cuts the run where the code throws.       *)
(***************************************************************************)
EXTENDS Integers, Sequences, FiniteSets, TLC

\* ---------------------------------------------------------------- bounds
MaxMsgs == 1        \* chat messages delivered in one behaviour
MaxLen == 2         \* longest list (equipment, skills, languages, traits, actions)
MaxCommands == 2    \* commands delivered in a row in SpecCommands

\* ------------------------------------------------------------ JS values
\* A decoded JSON value, or the result of a property read.  k is the type
\* tag; v the payload (a string, a number, a sequence of values, or a
\* function from own keys to values).
Str(s) == [k |-> "str", v |-> s]
Num(n) == [k |-> "num", v |-> n]
List(q) == [k |-> "list", v |-> q]
Obj(f) == [k |-> "obj", v |-> f]
Null == [k |-> "null", v |-> <<>>]
Undefined == [k |-> "undefined", v |-> <<>>]
\* a string the code built by concatenation or join: v is its fragments
Text(t) == [k |-> "text", v |-> t]

\* Strings the code builds by concatenation are sequences of fragments.
RECURSIVE JoinFrom(_, _, _)
ToText(val) ==
    CASE val.k = "str" -> <<val.v>>
      [] val.k = "text" -> val.v
      [] val.k = "num" -> <<ToString(val.v)>>
      [] val.k = "null" -> <<"null">>
      [] val.k = "undefined" -> <<"undefined">>
      [] val.k = "list" -> JoinFrom(val.v, ",", 1)
      [] OTHER -> <<"[object Object]">>

\* Array.prototype.join: null and undefined elements render as "".
ElemText(val) ==
    IF val.k \in {"null", "undefined"} THEN <<>> ELSE ToText(val)

JoinFrom(items, sep, i) ==
    IF i > Len(items) THEN <<>>
    ELSE ElemText(items[i])
         \o (IF i < Len(items) THEN <<sep>> ELSE <<>>)
         \o JoinFrom(items, sep, i + 1)

Join(items, sep) == JoinFrom(items, sep, 1)

\* obj.field on a value that is not null or undefined
Get(val, field) ==
    IF val.k = "obj" /\ field \in DOMAIN val.v THEN val.v[field] ELSE Undefined

\* ------------------------------------------------------- message content
\* The content of a chat message is a sequence of tokens: a literal piece
\* of text, or the text of one JSON document (j is the value it encodes).
Lit(s) == [t |-> "lit", s |-> s, j |-> Null]
Doc(val) == [t |-> "json", s |-> "", j |-> val]

CommandToken == "!create-npc"

IsLit(tok, s) == tok.t = "lit" /\ tok.s = s

\* String.prototype.startsWith
StartsWith(content, s) == Len(content) >= 1 /\ IsLit(content[1], s)

\* replace removing every occurrence of the token, those inside the
\* string values of a document too
Replace_all(content, s) ==
    LET kept == SelectSeq(content, LAMBDA tok : ~IsLit(tok, s))
        Scrubbed(val) ==
            IF val.k # "obj" THEN val
            ELSE Obj([f \in DOMAIN val.v |->
                        IF val.v[f].k = "str" /\ val.v[f].v = s
                        THEN Str("") ELSE val.v[f]])
    IN [i \in 1..Len(kept) |->
          IF kept[i].t = "json" THEN Doc(Scrubbed(kept[i].j)) ELSE kept[i]]
\* String.prototype.replace(string, ""): removes the first occurrence only
Replace(content, s) ==
    IF \E i \in 1..Len(content) : IsLit(content[i], s)
    THEN LET i == CHOOSE n \in 1..Len(content) :
                      /\ IsLit(content[n], s)
                      /\ \A m \in 1..(n - 1) : ~IsLit(content[m], s)
         IN SubSeq(content, 1, i - 1) \o SubSeq(content, i + 1, Len(content))
    ELSE content

\* String.prototype.trim
RECURSIVE TrimLeft(_)
TrimLeft(content) ==
    IF Len(content) >= 1 /\ IsLit(content[1], " ")
    THEN TrimLeft(Tail(content)) ELSE content

RECURSIVE TrimRight(_)
TrimRight(content) ==
    IF Len(content) >= 1 /\ IsLit(content[Len(content)], " ")
    THEN TrimRight(SubSeq(content, 1, Len(content) - 1)) ELSE content

Trim(content) == TrimRight(TrimLeft(content))

\* JSON.parse: one document and nothing else, or a SyntaxError
JSONParse(jsonStr) ==
    CASE Len(jsonStr) = 0 ->
             [thrown |-> TRUE, value |-> Undefined,
              error |-> <<"Unexpected end of JSON input">>]
      [] Len(jsonStr) >= 1 /\ jsonStr[1].t = "lit" ->
             [thrown |-> TRUE, value |-> Undefined,
              error |-> <<"Unexpected token ", jsonStr[1].s>>]
      [] Len(jsonStr) > 1 /\ jsonStr[1].t = "json" ->
             [thrown |-> TRUE, value |-> Undefined,
              error |-> <<"Unexpected non-whitespace character after JSON">>]
      [] OTHER ->
             [thrown |-> FALSE, value |-> jsonStr[1].j, error |-> <<>>]

\* ------------------------------------------------------------ the handler
\* The running invocation: the host's store, chat and log as the calls made
\* so far have left them, the number of createObj and Math.random calls
\* made, and the pending exception if one was thrown and not yet caught.
\*   failAt: the createObj call of this invocation that the store rejects
\*           (0: the store accepts every write)
\*   rnd:    what Math.random yields, in call order

StoreError == <<"createObj failed">>

Throw(E, msg) == [E EXCEPT !.thrown = TRUE, !.error = msg]

\* createObj(type, attributes): the host adds the object under a fresh id
\* and returns it, or rejects the write.
createObj(E, type, attributes) ==
    IF E.thrown THEN E
    ELSE IF E.calls + 1 = E.failAt
    THEN Throw([E EXCEPT !.calls = @ + 1], StoreError)
    ELSE [E EXCEPT !.calls = @ + 1,
                   !.store = Append(@, [type |-> type,
                                         id |-> Len(@) + 1,
                                         props |-> attributes])]

\* the object the last createObj returned
Created(E) == E.store[Len(E.store)]

\* sendChat(speakingAs, message); sent notes how many objects the store held
\* when each message of this invocation was sent
sendChat(E, speakingAs, message) ==
    IF E.thrown THEN E
    ELSE [E EXCEPT !.chat = Append(@, [who |-> speakingAs, text |-> message]),
                   !.sent = Append(@, Len(E.store))]

\* a log that records only the script's start
log_startOnly(E, message) == E

log(E, message) ==
    IF E.thrown THEN E ELSE [E EXCEPT !.logs = Append(@, message)]

\* Math.random().toString(36).substring(2, 10): the text of the next draw
generateRowID(E) == ToString(E.rnd[E.rcalls + 1])
Drawn(E) == IF E.thrown THEN E ELSE [E EXCEPT !.rcalls = @ + 1]

\* the parse error caught and an empty descriptor returned instead
extractNPCData_swallowed(content) ==
    LET parsed == JSONParse(Trim(Replace(content, CommandToken)))
    IN IF parsed.thrown
       THEN [thrown |-> FALSE, value |-> Obj(<<>>), error |-> <<>>]
       ELSE parsed

extractNPCData(content) ==
    LET jsonStr == Trim(Replace(content, CommandToken))
        parsed == JSONParse(jsonStr)
    IN IF parsed.thrown
       THEN [parsed EXCEPT !.error =
                <<"Invalid JSON format. Please check your input. Error: ">> \o @]
       ELSE parsed

requiredFields ==
    <<"name", "race", "class", "level",
      "strength", "dexterity", "constitution", "intelligence", "wisdom", "charisma",
      "actions", "background", "personality_traits", "equipment", "skills",
      "languages", "appearance">>

\* Object.prototype.hasOwnProperty on the boxed value
HasOwnProperty(data, field) == data.k = "obj" /\ field \in DOMAIN data.v

\* validation that answers false for a value with no properties
validateNPCData_guarded(data) ==
    CASE data.k \in {"null", "undefined"} ->
             [thrown |-> FALSE, ret |-> FALSE, error |-> <<>>]
      [] HasOwnProperty(data, "hasOwnProperty") ->
             [thrown |-> TRUE, ret |-> FALSE,
              error |-> <<"data.hasOwnProperty is not a function">>]
      [] OTHER ->
             [thrown |-> FALSE, error |-> <<>>,
              ret |-> \A i \in 1..Len(requiredFields) :
                          HasOwnProperty(data, requiredFields[i])]
\* data.hasOwnProperty(field) for each required field: the method is looked
\* up on the value itself, so null has none and an own key of that name
\* (never a function in decoded JSON) hides the inherited one.
validateNPCData(data) ==
    CASE data.k \in {"null", "undefined"} ->
             [thrown |-> TRUE, ret |-> FALSE,
              error |-> <<"Cannot read properties of ", data.k,
                          " (reading 'hasOwnProperty')">>]
      [] HasOwnProperty(data, "hasOwnProperty") ->
             [thrown |-> TRUE, ret |-> FALSE,
              error |-> <<"data.hasOwnProperty is not a function">>]
      [] OTHER ->
             [thrown |-> FALSE, error |-> <<>>,
              ret |-> \A i \in 1..Len(requiredFields) :
                          HasOwnProperty(data, requiredFields[i])]

\* items.forEach(...) / items.join(...) on a value that is no array
NotAnArray(val, method, expr) ==
    IF val.k \in {"null", "undefined"}
    THEN <<"Cannot read properties of ", val.k, " (reading '", method, "')">>
    ELSE <<expr, " is not a function">>

scalarAttributes ==
    <<"race", "class", "level", "strength", "dexterity", "constitution",
      "intelligence", "wisdom", "charisma">>

RECURSIVE addBasic(_, _, _, _)
addBasic(E, character, data, i) ==
    IF i > Len(scalarAttributes) \/ E.thrown THEN E
    ELSE addBasic(createObj(E, "attribute",
                            [name |-> <<scalarAttributes[i]>>,
                             current |-> Get(data, scalarAttributes[i]),
                             characterid |-> character.id]),
                  character, data, i + 1)

repeatingAttributes == <<"equipment", "skills", "languages">>

\* the items of a list written last to first
RECURSIVE addItems_reversed(_, _, _, _, _)
addItems_reversed(E, character, group, items, i) ==
    IF i > Len(items) \/ E.thrown THEN E
    ELSE addItems_reversed(
             createObj(Drawn(E), "attribute",
                       [name |-> <<"repeating", group, generateRowID(E), "name">>,
                        current |-> items[Len(items) - i + 1],
                        characterid |-> character.id]),
             character, group, items, i + 1)
RECURSIVE addItems(_, _, _, _, _)
addItems(E, character, group, items, i) ==
    IF i > Len(items) \/ E.thrown THEN E
    ELSE addItems(createObj(Drawn(E), "attribute",
                            [name |-> <<"repeating", group, generateRowID(E), "name">>,
                             current |-> items[i],
                             characterid |-> character.id]),
                  character, group, items, i + 1)

RECURSIVE addRepeating(_, _, _, _)
addRepeating(E, character, data, g) ==
    IF g > Len(repeatingAttributes) \/ E.thrown THEN E
    ELSE LET items == Get(data, repeatingAttributes[g])
         IN IF items.k # "list"
            THEN Throw(E, NotAnArray(items, "forEach", "attr.items.forEach"))
            ELSE addRepeating(addItems(E, character, repeatingAttributes[g], items.v, 1),
                              character, data, g + 1)

\* the background attribute left to the ability record alone
addAttributesToCharacter_noBackground(E, character, data) ==
    LET E1 == addBasic(E, character, data, 1)
        E2 == addRepeating(E1, character, data, 1)
        E3 == createObj(E2, "attribute",
                        [name |-> <<"appearance">>,
                         current |-> Get(data, "appearance"),
                         characterid |-> character.id])
        traits == Get(data, "personality_traits")
    IN IF E3.thrown THEN E3
       ELSE IF traits.k # "list"
       THEN Throw(E3, NotAnArray(traits, "join", "data.personality_traits.join"))
       ELSE createObj(E3, "attribute",
                      [name |-> <<"personality_traits">>,
                       current |-> Text(Join(traits.v, ", ")),
                       characterid |-> character.id])

\* the three late scalars written before the repeating lists
addAttributesToCharacter_scalarsFirst(E, character, data) ==
    LET E1 == addBasic(E, character, data, 1)
        E2 == createObj(E1, "attribute",
                        [name |-> <<"appearance">>,
                         current |-> Get(data, "appearance"),
                         characterid |-> character.id])
        E3 == createObj(E2, "attribute",
                        [name |-> <<"background">>,
                         current |-> Get(data, "background"),
                         characterid |-> character.id])
        traits == Get(data, "personality_traits")
        E4 == IF E3.thrown THEN E3
              ELSE IF traits.k # "list"
              THEN Throw(E3, NotAnArray(traits, "join", "data.personality_traits.join"))
              ELSE createObj(E3, "attribute",
                             [name |-> <<"personality_traits">>,
                              current |-> Text(Join(traits.v, ", ")),
                              characterid |-> character.id])
    IN addRepeating(E4, character, data, 1)
addAttributesToCharacter(E, character, data) ==
    LET E1 == addBasic(E, character, data, 1)
        E2 == addRepeating(E1, character, data, 1)
        E3 == createObj(E2, "attribute",
                        [name |-> <<"appearance">>,
                         current |-> Get(data, "appearance"),
                         characterid |-> character.id])
        E4 == createObj(E3, "attribute",
                        [name |-> <<"background">>,
                         current |-> Get(data, "background"),
                         characterid |-> character.id])
        traits == Get(data, "personality_traits")
    IN IF E4.thrown THEN E4
       ELSE IF traits.k # "list"
       THEN Throw(E4, NotAnArray(traits, "join", "data.personality_traits.join"))
       ELSE createObj(E4, "attribute",
                      [name |-> <<"personality_traits">>,
                       current |-> Text(Join(traits.v, ", ")),
                       characterid |-> character.id])

RECURSIVE addActions(_, _, _, _)
addActions(E, character, actions, i) ==
    IF i > Len(actions) \/ E.thrown THEN E
    ELSE LET action == actions[i]
             id1 == generateRowID(E)
             E1 == Drawn(E)
             E2 == createObj(E1, "attribute",
                             [name |-> <<"repeating", "npcaction", id1, "name">>,
                              current |-> Get(action, "name"),
                              characterid |-> character.id])
             id2 == generateRowID(E2)
             E3 == createObj(Drawn(E2), "attribute",
                             [name |-> <<"repeating", "npcaction", id2, "description">>,
                              current |-> Get(action, "description"),
                              characterid |-> character.id])
         IN IF action.k \in {"null", "undefined"}
            THEN Throw(E1, <<"Cannot read properties of ", action.k,
                             " (reading 'name')">>)
            ELSE addActions(E3, character, actions, i + 1)

\* the actions written twice over
createActionsAbility_twice(E, character, actions) ==
    IF E.thrown THEN E
    ELSE IF actions.k # "list"
    THEN Throw(E, NotAnArray(actions, "forEach", "actions.forEach"))
    ELSE addActions(addActions(E, character, actions.v, 1), character, actions.v, 1)
createActionsAbility(E, character, actions) ==
    IF E.thrown THEN E
    ELSE IF actions.k # "list"
    THEN Throw(E, NotAnArray(actions, "forEach", "actions.forEach"))
    ELSE addActions(E, character, actions.v, 1)

\* the ability text with the traits joined as in the attribute
createBackgroundAbility_spaced(E, character, data) ==
    LET traits == Get(data, "personality_traits")
        backgroundText ==
            <<"Background: ">> \o ToText(Get(data, "background")) \o <<"\n\n">>
            \o <<"Personality Traits: ">>
            \o (IF traits.k = "list" THEN Join(traits.v, ", ") ELSE ToText(traits))
            \o <<"\n\n">>
    IN createObj(E, "ability",
                 [name |-> <<"Background & Personality">>,
                  description |-> Text(backgroundText),
                  characterid |-> character.id])
\* the ability given to the first character of the store
createBackgroundAbility_firstCharacter(E, character, data) ==
    LET backgroundText ==
            <<"Background: ">> \o ToText(Get(data, "background")) \o <<"\n\n">>
            \o <<"Personality Traits: ">> \o ToText(Get(data, "personality_traits"))
            \o <<"\n\n">>
    IN createObj(E, "ability",
                 [name |-> <<"Background & Personality">>,
                  description |-> Text(backgroundText),
                  characterid |-> E.store[1].id])
createBackgroundAbility(E, character, data) ==
    LET backgroundText ==
            <<"Background: ">> \o ToText(Get(data, "background")) \o <<"\n\n">>
            \o <<"Personality Traits: ">> \o ToText(Get(data, "personality_traits"))
            \o <<"\n\n">>
    IN createObj(E, "ability",
                 [name |-> <<"Background & Personality">>,
                  description |-> Text(backgroundText),
                  characterid |-> character.id])

Speaker == "NPC Creator"
Whisper == "/w gm "
ValidationMessage ==
    <<Whisper, "Error: Invalid NPC data format. Please check all required fields are present.">>
SuccessMessage(name) == <<Whisper, "NPC ">> \o ToText(name) \o <<" has been created!">>
\* the failure reported without the whisper prefix
FailureMessage_public(msg) == <<"Error creating NPC: ">> \o msg
FailureMessage(msg) == <<Whisper, "Error creating NPC: ">> \o msg
FailureLog(msg) == <<"NPC Creation Error: ">> \o msg

\* the try block creating nothing when a character of that name exists
tryBlock_onceByName(E, msg) ==
    LET parsed == extractNPCData(msg.content)
        npcData == parsed.value
        valid == validateNPCData(npcData)
        known == \E i \in 1..Len(E.store) :
                    /\ E.store[i].type = "character"
                    /\ E.store[i].props.name = Get(npcData, "name")
        E1 == createObj(E, "character",
                        [name |-> Get(npcData, "name"),
                         controlledby |-> msg.playerid])
        character == Created(E1)
        E2 == addAttributesToCharacter(E1, character, npcData)
        E3 == createActionsAbility(E2, character, Get(npcData, "actions"))
        E4 == createBackgroundAbility(E3, character, npcData)
    IN IF parsed.thrown THEN Throw(E, parsed.error)
       ELSE IF valid.thrown THEN Throw(E, valid.error)
       ELSE IF ~valid.ret THEN sendChat(E, Speaker, ValidationMessage)
       ELSE IF known THEN sendChat(E, Speaker, SuccessMessage(Get(npcData, "name")))
       ELSE IF E1.thrown THEN E1
       ELSE sendChat(E4, Speaker, SuccessMessage(Get(npcData, "name")))
\* the try block announcing the character before writing its ability
tryBlock_earlyNotice(E, msg) ==
    LET parsed == extractNPCData(msg.content)
        npcData == parsed.value
        valid == validateNPCData(npcData)
        E1 == createObj(E, "character",
                        [name |-> Get(npcData, "name"),
                         controlledby |-> msg.playerid])
        character == Created(E1)
        E2 == addAttributesToCharacter(E1, character, npcData)
        E3 == createActionsAbility(E2, character, Get(npcData, "actions"))
        E4 == sendChat(E3, Speaker, SuccessMessage(Get(npcData, "name")))
    IN IF parsed.thrown THEN Throw(E, parsed.error)
       ELSE IF valid.thrown THEN Throw(E, valid.error)
       ELSE IF ~valid.ret THEN sendChat(E, Speaker, ValidationMessage)
       ELSE IF E1.thrown THEN E1
       ELSE createBackgroundAbility(E4, character, npcData)
\* the try block leaving the character without a controller
tryBlock_uncontrolled(E, msg) ==
    LET parsed == extractNPCData(msg.content)
        npcData == parsed.value
        valid == validateNPCData(npcData)
        E1 == createObj(E, "character",
                        [name |-> Get(npcData, "name"),
                         controlledby |-> ""])
        character == Created(E1)
        E2 == addAttributesToCharacter(E1, character, npcData)
        E3 == createActionsAbility(E2, character, Get(npcData, "actions"))
        E4 == createBackgroundAbility(E3, character, npcData)
    IN IF parsed.thrown THEN Throw(E, parsed.error)
       ELSE IF valid.thrown THEN Throw(E, valid.error)
       ELSE IF ~valid.ret THEN sendChat(E, Speaker, ValidationMessage)
       ELSE IF E1.thrown THEN E1
       ELSE sendChat(E4, Speaker, SuccessMessage(Get(npcData, "name")))
\* the try block replacing the characters of the same name
tryBlock_replaces(E, msg) ==
    LET parsed == extractNPCData(msg.content)
        npcData == parsed.value
        valid == validateNPCData(npcData)
        Other(r) == ~(r.type = "character" /\ r.props.name = Get(npcData, "name"))
        E0 == [E EXCEPT !.store = SelectSeq(@, Other)]
        E1 == createObj(E0, "character",
                        [name |-> Get(npcData, "name"),
                         controlledby |-> msg.playerid])
        character == Created(E1)
        E2 == addAttributesToCharacter(E1, character, npcData)
        E3 == createActionsAbility(E2, character, Get(npcData, "actions"))
        E4 == createBackgroundAbility(E3, character, npcData)
    IN IF parsed.thrown THEN Throw(E, parsed.error)
       ELSE IF valid.thrown THEN Throw(E, valid.error)
       ELSE IF ~valid.ret THEN sendChat(E, Speaker, ValidationMessage)
       ELSE IF E1.thrown THEN E1
       ELSE sendChat(E4, Speaker, SuccessMessage(Get(npcData, "name")))
\* the statements of the try block
tryBlock(E, msg) ==
    LET parsed == extractNPCData(msg.content)
        npcData == parsed.value
        valid == validateNPCData(npcData)
        E1 == createObj(E, "character",
                        [name |-> Get(npcData, "name"),
                         controlledby |-> msg.playerid])
        character == Created(E1)
        E2 == addAttributesToCharacter(E1, character, npcData)
        E3 == createActionsAbility(E2, character, Get(npcData, "actions"))
        E4 == createBackgroundAbility(E3, character, npcData)
    IN IF parsed.thrown THEN Throw(E, parsed.error)
       ELSE IF valid.thrown THEN Throw(E, valid.error)
       ELSE IF ~valid.ret THEN sendChat(E, Speaker, ValidationMessage)
       ELSE IF E1.thrown THEN E1
       ELSE sendChat(E4, Speaker, SuccessMessage(Get(npcData, "name")))

\* the catch block without its log call
catchBlock_unlogged(E) ==
    sendChat([E EXCEPT !.thrown = FALSE], Speaker, FailureMessage(E.error))

\* the catch block undoing the writes of the invocation
catchBlock_rollback(E) ==
    LET made == IF E.error = StoreError THEN E.calls - 1 ELSE E.calls
        C == [E EXCEPT !.thrown = FALSE,
                       !.store = SubSeq(@, 1, Len(@) - made)]
    IN log(sendChat(C, Speaker, FailureMessage(E.error)), FailureLog(E.error))

\* the catch block that logs and tells nobody
catchBlock_silent(E) ==
    log([E EXCEPT !.thrown = FALSE], FailureLog(E.error))

\* the catch block
catchBlock(E) ==
    LET C == [E EXCEPT !.thrown = FALSE]
    IN log(sendChat(C, Speaker, FailureMessage(E.error)), FailureLog(E.error))

\* the guard asking for the token as a whole word
handleInput_wholeWord(E, msg) ==
    IF \/ msg.type # "api"
       \/ ~StartsWith(msg.content, CommandToken)
       \/ (Len(msg.content) >= 2 /\ ~IsLit(msg.content[2], " "))
    THEN E
    ELSE LET T == tryBlock(E, msg)
         IN IF T.thrown THEN catchBlock(T) ELSE T
\* the guard with && for ||
handleInput_eitherTest(E, msg) ==
    IF msg.type # "api" /\ ~StartsWith(msg.content, CommandToken) THEN E
    ELSE LET T == tryBlock(E, msg)
         IN IF T.thrown THEN catchBlock(T) ELSE T

handleInput(E, msg) ==
    IF msg.type # "api" \/ ~StartsWith(msg.content, CommandToken) THEN E
    ELSE LET T == tryBlock(E, msg)
         IN IF T.thrown THEN catchBlock(T) ELSE T

\* ------------------------------------------------------------- the inputs
EquipmentPool == <<"Axe", "Shield", "Rope", "Torch">>
SkillsPool == <<"Athletics", "Stealth", "Survival", "Arcana">>
LanguagesPool == <<"Common", "Orcish", "Elvish", "Dwarvish">>
TraitsPool == <<"Gruff", "Loyal", "Brave", "Quiet">>
ActionsPool ==
    <<[name |-> "Slam", description |-> "2d6 bludgeoning"],
      [name |-> "Bite", description |-> "1d8 piercing"],
      [name |-> "Claw", description |-> "1d6 slashing"],
      [name |-> "Roar", description |-> "frightens"]>>

Strings(pool, n) == List([i \in 1..n |-> Str(pool[i])])
Actions(n) ==
    List([i \in 1..n |-> Obj([name |-> Str(ActionsPool[i].name),
                              description |-> Str(ActionsPool[i].description)])])

\* The descriptor of the documented example, with the first n, m, k, a, t
\* entries of its equipment, skills, languages, actions and traits.
Descriptor(n, m, k, a, t) ==
    Obj([name |-> Str("Grak"), race |-> Str("Orc"), class |-> Str("Fighter"),
         level |-> Num(3), strength |-> Num(16), dexterity |-> Num(12),
         constitution |-> Num(14), intelligence |-> Num(8), wisdom |-> Num(10),
         charisma |-> Num(9),
         actions |-> Actions(a),
         background |-> Str("Former gladiator"),
         personality_traits |-> Strings(TraitsPool, t),
         equipment |-> Strings(EquipmentPool, n),
         skills |-> Strings(SkillsPool, m),
         languages |-> Strings(LanguagesPool, k),
         appearance |-> Str("Scarred and massive")])

Grak == Descriptor(2, 1, 2, 1, 2)
Plain == Descriptor(1, 0, 0, 1, 1)

Without(data, fields) == Obj([f \in DOMAIN data.v \ fields |-> data.v[f]])
With(data, field, val) ==
    Obj([f \in DOMAIN data.v \cup {field} |-> IF f = field THEN val ELSE data.v[f]])

Required == {requiredFields[i] : i \in 1..Len(requiredFields)}
ListFields == {"equipment", "skills", "languages", "actions", "personality_traits"}

\* every field present: no entries, the documented example, and each list
\* in turn at its longest
Complete ==
    {Descriptor(0, 0, 0, 0, 0), Descriptor(1, 1, 1, 1, 1), Grak,
     Descriptor(MaxLen, 0, 0, 0, 0), Descriptor(0, MaxLen, 0, 0, 0),
     Descriptor(0, 0, MaxLen, 0, 0), Descriptor(0, 0, 0, MaxLen, 0),
     Descriptor(0, 0, 0, 0, MaxLen)}

\* present but falsy values
Falsy ==
    With(With(With(Descriptor(0, 0, 0, 0, 0), "name", Str("")), "level", Num(0)),
         "background", Str(""))

\* one or more required fields absent
Incomplete ==
    {Without(Plain, {f}) : f \in Required}
    \cup {Without(Plain, {"name", "wisdom"}), Without(Plain, Required)}

\* an own key named hasOwnProperty
Shadowing ==
    {With(Plain, "hasOwnProperty", Num(1)),
     With(Without(Plain, {"wisdom"}), "hasOwnProperty", Num(1))}

\* every field present, one of them holding no list, or a list with a hole
IllTyped ==
    {With(Plain, f, bad) : f \in ListFields, bad \in {Null, Str("none")}}
    \cup {With(Plain, "equipment", Num(0)),
          With(Plain, "actions", List(<<Null>>)),
          With(Plain, "actions", List(<<Str("Slam")>>)),
          With(Plain, "name", Null)}

NotObjects == {Null, Num(5), Str("Grak"), List(<<>>)}

\* a name that reads like a chat command
Commanding == With(Descriptor(0, 0, 0, 0, 0), "name", Str("/desc Grak"))

\* a string value that holds the command token
Quoting == With(Descriptor(0, 0, 0, 0, 0), "background", Str(CommandToken))

Payloads ==
    Complete \cup {Falsy, Commanding, Quoting} \cup Incomplete \cup Shadowing
    \cup IllTyped \cup NotObjects

Cmd == Lit(CommandToken)
Sp == Lit(" ")

Contents ==
    {<<Cmd, Sp, Doc(d)>> : d \in Payloads}
    \cup {<<Cmd, Doc(Plain)>>, <<Cmd, Sp, Sp, Doc(Plain), Sp>>,
          <<Cmd>>, <<Cmd, Sp>>, <<Cmd, Sp, Lit("{name:")>>,
          <<Cmd, Lit("x"), Doc(Plain)>>, <<Cmd, Sp, Doc(Plain), Lit("}")>>,
          <<Cmd, Sp, Doc(Plain), Sp, Doc(Plain)>>,
          <<Lit("!roll"), Sp, Doc(Plain)>>, <<Sp, Cmd, Sp, Doc(Plain)>>,
          <<Doc(Plain)>>, <<Lit("hello")>>, <<>>}

Messages ==
    {[type |-> "api", content |-> c, playerid |-> "-Mplayer1"] : c \in Contents}
    \cup {[type |-> "api", content |-> <<Cmd, Sp, Doc(Plain)>>, playerid |-> "-Mplayer2"],
          [type |-> "general", content |-> <<Cmd, Sp, Doc(Plain)>>, playerid |-> "-Mplayer1"],
          [type |-> "general", content |-> <<Lit("hello")>>, playerid |-> "-Mplayer2"],
          [type |-> "whisper", content |-> <<Cmd, Sp, Doc(Grak)>>, playerid |-> "-Mplayer1"]}

\* Messages in a row: the documented example, a smaller descriptor from
\* another player, a descriptor lacking a field, text that is no JSON, and
\* a message that is no command.
Commands ==
    {[type |-> "api", content |-> <<Cmd, Sp, Doc(Grak)>>, playerid |-> "-Mplayer1"],
     [type |-> "api", content |-> <<Cmd, Sp, Doc(Plain)>>, playerid |-> "-Mplayer2"],
     [type |-> "api", content |-> <<Cmd, Sp, Doc(Without(Plain, {"wisdom"}))>>,
      playerid |-> "-Mplayer1"],
     [type |-> "api", content |-> <<Cmd, Sp, Lit("{name:")>>, playerid |-> "-Mplayer1"],
     [type |-> "general", content |-> <<Lit("hello")>>, playerid |-> "-Mplayer2"]}

\* records the host's store may hold before the script runs
HostRecord ==
    [type |-> "character", id |-> 1,
     props |-> [name |-> Str("Old Tom"), controlledby |-> "-Mplayer2"]]
InitialStore == <<HostRecord>>

\* ------------------------------------------------------------------ state
VARIABLES
    store,      \* the host's objects, in creation order
    chat,       \* what sendChat was given, in call order
    logs,       \* what log was given, in call order
    handlers,   \* number of chat:message handlers registered
    delivered,  \* chat messages the host has delivered
    last        \* the last delivery: the message, what the host decided
                \* (failAt, rnd) and the state it started from

vars == <<store, chat, logs, handlers, delivered, last>>

NoMessage == [type |-> "none", content |-> <<>>, playerid |-> ""]

Init ==
    /\ store = InitialStore
    /\ chat = <<>>
    /\ logs = <<>>
    /\ handlers = 0
    /\ delivered = 0
    /\ last = [msg |-> NoMessage, ran |-> FALSE, failAt |-> 0,
               store0 |-> store, chat0 |-> <<>>, logs0 |-> <<>>,
               calls |-> 0, sent |-> <<>>, escaped |-> FALSE]

Invocation(rnd, failAt) ==
    [store |-> store, chat |-> chat, logs |-> logs, sent |-> <<>>,
     calls |-> 0, rcalls |-> 0, failAt |-> failAt, rnd |-> rnd,
     thrown |-> FALSE, error |-> <<>>]

\* What Math.random yields in an invocation that draws n times: every draw
\* new, or draws that repeat (all alike, or alike two draws apart).
Draws(n) ==
    {[i \in 1..n |-> i]}
    \cup {[i \in 1..n |-> IF i % 2 = 1 THEN a ELSE b] : a, b \in 1..2}

\* what an invocation asks of the host when nothing fails
Dry(msg) == handleInput(Invocation([i \in 1..(5 * MaxLen) |-> i], 0), msg)

\* What the host decides in one delivery: the draws when the store accepts
\* every write, and each write the store can reject.
Hosts(msg) ==
    LET dry == Dry(msg)
    IN {<<rnd, 0>> : rnd \in Draws(dry.rcalls)}
       \cup {<<[i \in 1..dry.rcalls |-> i], failAt>> : failAt \in 1..dry.calls}

\* on('ready', ...) without its log call
Ready_unlogged ==
    /\ handlers = 0
    /\ handlers' = handlers + 1
    /\ UNCHANGED <<store, chat, logs, delivered, last>>
\* on('ready', ...): registers handleInput and logs
Ready ==
    /\ handlers = 0
    /\ handlers' = handlers + 1
    /\ logs' = Append(logs, <<"NPC Creation Script loaded">>)
    /\ UNCHANGED <<store, chat, delivered, last>>

\* a chat message arrives before any handler is registered
Unheard(msg) ==
    /\ handlers = 0
    /\ delivered < MaxMsgs
    /\ delivered' = delivered + 1
    /\ last' = [msg |-> msg, ran |-> FALSE, failAt |-> 0,
                store0 |-> store, chat0 |-> chat, logs0 |-> logs,
                calls |-> 0, sent |-> <<>>, escaped |-> FALSE]
    /\ UNCHANGED <<store, chat, logs, handlers>>

\* handleInput runs to its end on a message
Deliver(msg, rnd, failAt) ==
    /\ handlers > 0
    /\ LET R == handleInput(Invocation(rnd, failAt), msg)
       IN /\ store' = R.store
          /\ chat' = R.chat
          /\ logs' = R.logs
          /\ last' = [msg |-> msg, ran |-> TRUE, failAt |-> failAt,
                      store0 |-> store, chat0 |-> chat, logs0 |-> logs,
                      calls |-> R.calls, sent |-> R.sent, escaped |-> R.thrown]
    /\ delivered' = delivered + 1
    /\ UNCHANGED handlers

\* the host delivers a chat message to handleInput
ChatMessage(msg, rnd, failAt) ==
    /\ delivered < MaxMsgs
    /\ Deliver(msg, rnd, failAt)

\* the messages that may arrive: any of Messages first, then those of
\* Commands
Arrivals == IF delivered = 0 THEN Messages ELSE Commands

Next ==
    \/ Ready
    \/ /\ handlers = 0
       /\ delivered < MaxMsgs
       /\ \E msg \in Arrivals : Unheard(msg)
    \/ /\ handlers > 0
       /\ delivered < MaxMsgs
       /\ \E msg \in Arrivals :
            \E host \in Hosts(msg) : ChatMessage(msg, host[1], host[2])

Spec == Init /\ [][Next]_vars

Command(msg, rnd, failAt) ==
    /\ delivered < MaxCommands
    /\ Deliver(msg, rnd, failAt)

\* What the host decides for a message in a row: as in Hosts, the writes it
\* can reject being the first (the character), the one after the nine
\* scalars, and the last
CommandHosts(msg) ==
    {host \in Hosts(msg) :
        host[2] \in {0, 1, Len(scalarAttributes) + 2, Dry(msg).calls}}

NextCommand ==
    \/ Ready
    \/ /\ handlers > 0
       /\ delivered < MaxCommands
       /\ \E msg \in Commands :
            \E host \in CommandHosts(msg) : Command(msg, host[1], host[2])

SpecCommands == Init /\ [][NextCommand]_vars

\* ------------------------------------------------------------ properties
\* what the last delivery added
NewRecords == SubSeq(store, Len(last.store0) + 1, Len(store))
NewChat == SubSeq(chat, Len(last.chat0) + 1, Len(chat))
NewLogs == SubSeq(logs, Len(last.logs0) + 1, Len(logs))

Accepted(msg) == msg.type = "api" /\ StartsWith(msg.content, CommandToken)
PayloadText(msg) == Trim(Replace(msg.content, CommandToken))
Malformed(msg) == JSONParse(PayloadText(msg)).thrown
Payload(msg) == JSONParse(PayloadText(msg)).value
Decoded(msg) == Accepted(msg) /\ ~Malformed(msg)

Lacking(data) == data.k = "obj" /\ \E f \in Required : f \notin DOMAIN data.v

\* The descriptor passes validation and its lists are lists of entries.
WellFormed(data) ==
    /\ data.k = "obj"
    /\ Required \subseteq DOMAIN data.v
    /\ "hasOwnProperty" \notin DOMAIN data.v
    /\ \A f \in ListFields : data.v[f].k = "list"
    /\ \A i \in 1..Len(data.v["actions"].v) : data.v["actions"].v[i].k = "obj"

\* the audience the host gives a message: a whisper to the GM, or everyone
Audience(text) == IF Len(text) >= 1 /\ text[1] = "/w gm " THEN "gm" ELSE "all"

EndsWith(text, tail) ==
    /\ Len(text) >= Len(tail)
    /\ SubSeq(text, Len(text) - Len(tail) + 1, Len(text)) = tail

IsRow(r, group) ==
    r.type = "attribute" /\ Len(r.props.name) = 4 /\ r.props.name[2] = group
IsActionRow(r) == IsRow(r, "npcaction")
IsOtherAttribute(r) == r.type = "attribute" /\ ~IsActionRow(r)
IsCharacter(r) == r.type = "character"
IsAbility(r) == r.type = "ability"
Count(recs, P(_)) == Cardinality({i \in 1..Len(recs) : P(recs[i])})

Succeeded ==
    /\ Len(NewChat) = 1
    /\ Len(NewChat[1].text) >= 2
    /\ NewChat[1].text[2] = "NPC "

\* the store rejected a write of the last delivery
StoreFailed == last.ran /\ last.failAt > 0 /\ last.calls = last.failAt

\* the last delivery run again from where it started, nothing failing
Replay ==
    handleInput([store |-> last.store0, chat |-> last.chat0, logs |-> last.logs0,
                 sent |-> <<>>, calls |-> 0, rcalls |-> 0, failAt |-> 0,
                 rnd |-> [i \in 1..(5 * MaxLen) |-> i],
                 thrown |-> FALSE, error |-> <<>>], last.msg)

\* C1 (as claimed): an accepted command whose payload is a JSON object
\* lacking a required field makes no createObj call and gets exactly one
\* notification, the validation error.
C1_IncompleteObjectGetsValidationError ==
    (last.ran /\ Decoded(last.msg) /\ Lacking(Payload(last.msg)))
    => /\ last.calls = 0
       /\ NewRecords = <<>>
       /\ NewChat = <<[who |-> Speaker, text |-> ValidationMessage]>>

\* C2: an accepted command whose payload text is no JSON creates nothing
\* and gets exactly one notification, the failure message carrying the
\* decoder's message.
C2_FormatErrorReported ==
    (last.ran /\ Accepted(last.msg) /\ Malformed(last.msg))
    => /\ last.calls = 0
       /\ NewRecords = <<>>
       /\ NewChat =
            <<[who |-> Speaker,
               text |-> <<Whisper, "Error creating NPC: ",
                          "Invalid JSON format. Please check your input. Error: ">>
                        \o JSONParse(PayloadText(last.msg)).error]>>

C2_Witness ==
    /\ last.ran
    /\ last.msg.content = <<Cmd, Sp, Lit("{name:")>>
    /\ Len(NewChat) = 1
    /\ EndsWith(NewChat[1].text, <<"Unexpected token ", "{name:">>)

\* C3 (as claimed): a well-formed descriptor with N, M, K list entries and
\* A actions, every write accepted, yields 1 character, 9 + N + M + K
\* scalar and list attributes, 2 * A action attributes and 1 ability.
C3_NineScalarAttributes ==
    (last.ran /\ last.failAt = 0 /\ Decoded(last.msg) /\ WellFormed(Payload(last.msg)))
    => LET d == Payload(last.msg).v
       IN /\ Count(NewRecords, IsCharacter) = 1
          /\ Count(NewRecords, IsOtherAttribute)
               = 9 + Len(d["equipment"].v) + Len(d["skills"].v) + Len(d["languages"].v)
          /\ Count(NewRecords, IsActionRow) = 2 * Len(d["actions"].v)
          /\ Count(NewRecords, IsAbility) = 1

\* C3 (amended): the same with 12 + N + M + K scalar and list attributes:
\* appearance, background and personality_traits are attributes too.
C3_RecordCounts ==
    (last.ran /\ last.failAt = 0 /\ Decoded(last.msg) /\ WellFormed(Payload(last.msg)))
    => LET d == Payload(last.msg).v
       IN /\ Count(NewRecords, IsCharacter) = 1
          /\ Count(NewRecords, IsOtherAttribute)
               = 12 + Len(d["equipment"].v) + Len(d["skills"].v) + Len(d["languages"].v)
          /\ Count(NewRecords, IsActionRow) = 2 * Len(d["actions"].v)
          /\ Count(NewRecords, IsAbility) = 1
          /\ Len(NewRecords) = last.calls

C3_Witness ==
    /\ last.ran /\ last.failAt = 0
    /\ last.msg.content = <<Cmd, Sp, Doc(Grak)>>
    /\ Count(NewRecords, IsCharacter) = 1
    /\ Count(NewRecords, IsOtherAttribute) = 12 + 2 + 1 + 2
    /\ Count(NewRecords, IsActionRow) = 2
    /\ Count(NewRecords, IsAbility) = 1

\* C4 (as claimed): when the store accepts every write, a delivery adds
\* none of a command's records or all of them, the ability last.
C4_AllOrNothing ==
    (last.ran /\ last.failAt = 0)
    => \/ NewRecords = <<>>
       \/ /\ IsCharacter(NewRecords[1])
          /\ IsAbility(NewRecords[Len(NewRecords)])

\* C5: a message that is not of type "api", or does not begin with the
\* command token, changes nothing: no record, no notification, no log entry.
C5_IgnoredSilently ==
    (last.ran /\ ~Accepted(last.msg))
    => /\ store = last.store0
       /\ chat = last.chat0
       /\ logs = last.logs0
       /\ last.calls = 0

C5_Witness ==
    /\ last.ran
    /\ last.msg.type = "general"
    /\ StartsWith(last.msg.content, CommandToken)
    /\ store = last.store0 /\ chat = <<>>

\* C6: when the store rejects a write, the failure does not leave the
\* handler; exactly one notification, a whisper to the GM ending in the
\* store's message, and exactly one log entry ending in it, are produced,
\* and no success notification.
C6_StoreFailureReported ==
    StoreFailed
    => /\ ~last.escaped
       /\ Len(NewChat) = 1
       /\ Audience(NewChat[1].text) = "gm"
       /\ EndsWith(NewChat[1].text, StoreError)
       /\ Len(NewLogs) = 1
       /\ EndsWith(NewLogs[1], StoreError)
       /\ ~Succeeded

C6_Witness ==
    /\ StoreFailed
    /\ last.failAt > 1
    /\ NewLogs = <<<<"NPC Creation Error: ">> \o StoreError>>

\* C7: when the store rejects write number n of a delivery, the n - 1
\* records written before it are all in the store afterwards, exactly as
\* written, behind the records the store held before.
C7_NoRollback ==
    StoreFailed
    => /\ SubSeq(store, 1, Len(last.store0)) = last.store0
       /\ Len(NewRecords) = last.failAt - 1
       /\ NewRecords = SubSeq(Replay.store, Len(last.store0) + 1,
                              Len(last.store0) + last.failAt - 1)

\* a character left with some of its attributes and no ability
C7_Witness ==
    /\ StoreFailed
    /\ Len(NewRecords) > 3
    /\ IsCharacter(NewRecords[1])
    /\ Count(NewRecords, IsAbility) = 0

\* the decoded value is a number, a string, a list, or an object lacking
\* a required field, and validation comes to its verdict
SchemaFailure(msg) ==
    /\ Decoded(msg)
    /\ \/ Payload(msg).k \in {"num", "str", "list"}
       \/ /\ Lacking(Payload(msg))
          /\ "hasOwnProperty" \notin DOMAIN Payload(msg).v

\* an accepted command that ended in an error
ErrorOutcome ==
    /\ last.ran /\ Accepted(last.msg)
    /\ \/ Malformed(last.msg)
       \/ SchemaFailure(last.msg)
       \/ StoreFailed

\* C8 (as claimed): every error outcome of an accepted command gives one
\* notification and one log entry, and does not leave the handler.
C8_EveryErrorNotifiedAndLogged ==
    ErrorOutcome
    => /\ Len(NewChat) = 1
       /\ Len(NewLogs) = 1
       /\ ~last.escaped

\* C8 (amended): every error outcome gives one notification, a whisper to
\* the GM, and does not leave the handler; a format error and a store
\* failure also give one log entry, a validation failure gives none.
C8_ErrorsNotifiedFailuresLogged ==
    ErrorOutcome
    => /\ Len(NewChat) = 1
       /\ Audience(NewChat[1].text) = "gm"
       /\ ~Succeeded
       /\ ~last.escaped
       /\ Len(NewLogs) = IF SchemaFailure(last.msg) THEN 0 ELSE 1

C8_Witness ==
    /\ ErrorOutcome
    /\ SchemaFailure(last.msg)
    /\ NewChat = <<[who |-> Speaker, text |-> ValidationMessage]>>
    /\ NewLogs = <<>>

\* C9: every notification sent is a whisper to the GM.
C9_OnlyWhispers ==
    \A i \in 1..Len(chat) : Audience(chat[i].text) = "gm"

C9_Witness ==
    /\ last.ran
    /\ Decoded(last.msg) /\ Payload(last.msg) = Commanding
    /\ Succeeded
    /\ Audience(NewChat[1].text) = "gm"

\* C10 (as claimed): the name and description records of one action carry
\* the same row id, and different actions carry different row ids.
RowID(r) == r.props.name[3]
IsActionName(r) == IsActionRow(r) /\ r.props.name[4] = "name"
IsActionDescription(r) == IsActionRow(r) /\ r.props.name[4] = "description"
C10_ActionRowsShareOneID ==
    last.ran
    => /\ \A i \in 1..(Len(NewRecords) - 1) :
            (IsActionName(NewRecords[i]) /\ IsActionDescription(NewRecords[i + 1]))
            => RowID(NewRecords[i]) = RowID(NewRecords[i + 1])
       /\ \A i, j \in 1..Len(NewRecords) :
            (i < j /\ IsActionName(NewRecords[i]) /\ IsActionName(NewRecords[j]))
            => RowID(NewRecords[i]) # RowID(NewRecords[j])

\* the field group of a repeating-list row
Group(r) == r.props.name[2]
IsAnyRow(r) == r.type = "attribute" /\ Len(r.props.name) = 4

\* C11 (as claimed): no two entries of one field group (equipment, skills,
\* languages, npcaction) of one character carry the same discriminator; the
\* rows compared are those of different entries, so of the same suffix.
C11_RowIDsDistinctInGroup ==
    \A i, j \in 1..Len(store) :
        (/\ i < j
         /\ IsAnyRow(store[i]) /\ IsAnyRow(store[j])
         /\ Group(store[i]) = Group(store[j])
         /\ store[i].props.name[4] = store[j].props.name[4]
         /\ store[i].props.characterid = store[j].props.characterid)
        => RowID(store[i]) # RowID(store[j])

\* C12 (as claimed): validateNPCData returns true exactly when each of the
\* 17 required names is a key of the decoded object, whatever the values;
\* such a descriptor is materialized when the store accepts the writes.
C12_PresenceAloneDecides ==
    (last.ran /\ Decoded(last.msg) /\ Payload(last.msg).k = "obj")
    => LET data == Payload(last.msg)
           valid == validateNPCData(data)
           present == Required \subseteq DOMAIN data.v
       IN /\ (~valid.thrown /\ valid.ret) <=> present
          /\ (present /\ last.failAt = 0) => Count(NewRecords, IsCharacter) = 1

\* the records that name the character of the given id as theirs
Dependents(recs, id) ==
    {i \in 1..Len(recs) : ~IsCharacter(recs[i]) /\ recs[i].props.characterid = id}

\* C13: commands are not idempotent. Every successful command, a repeated
\* one too, adds exactly one character record under an id no other record
\* has, and with it the full set of dependent records of that character.
C13_EverySuccessAddsACharacter ==
    /\ \A i, j \in 1..Len(store) : i # j => store[i].id # store[j].id
    /\ (last.ran /\ Succeeded)
       => /\ Count(store, IsCharacter) = Count(last.store0, IsCharacter) + 1
          /\ IsCharacter(NewRecords[1])
          /\ Len(NewRecords) = Len(Replay.store) - Len(last.store0)
          /\ Cardinality(Dependents(store, NewRecords[1].id)) = Len(NewRecords) - 1

\* the documented example handled twice: two characters of that name
C13_Witness ==
    /\ delivered = 2
    /\ last.msg.content = <<Cmd, Sp, Doc(Grak)>>
    /\ chat = <<[who |-> Speaker, text |-> SuccessMessage(Str("Grak"))],
                [who |-> Speaker, text |-> SuccessMessage(Str("Grak"))]>>
    /\ Len(store) = Len(InitialStore) + 2 * 21
    /\ LET a == store[Len(InitialStore) + 1]
           b == store[Len(InitialStore) + 22]
       IN /\ IsCharacter(a) /\ IsCharacter(b)
          /\ a.props = b.props
          /\ a.id # b.id
          /\ Cardinality(Dependents(store, a.id)) = 20
          /\ Cardinality(Dependents(store, b.id)) = 20

\* C14: every attribute and ability record names as its characterid the id
\* of the character record created before it in the same invocation: the
\* nearest character record before it in the store, and what an invocation
\* adds begins with its character record.
C14_DependentsNameTheirCharacter ==
    /\ (last.ran /\ NewRecords # <<>>) => IsCharacter(NewRecords[1])
    /\ \A i \in 1..Len(store) :
          ~IsCharacter(store[i])
          => LET before == {j \in 1..(i - 1) : IsCharacter(store[j])}
                 nearest == CHOOSE j \in before : \A k \in before : k <= j
             IN /\ before # {}
                /\ store[nearest].id = store[i].props.characterid

\* a second command that the store cut short, after a complete first one
C14_Witness ==
    /\ delivered = 2
    /\ StoreFailed
    /\ Count(last.store0, IsAbility) = 1
    /\ Count(NewRecords, IsActionRow) = 2
    /\ Count(NewRecords, IsAbility) = 0
    /\ \A i \in 2..Len(NewRecords) :
          NewRecords[i].props.characterid = NewRecords[1].id

IsSuccessNotice(m) == Len(m.text) >= 2 /\ m.text[2] = "NPC "
PassesValidation(msg) ==
    /\ Decoded(msg)
    /\ ~validateNPCData(Payload(msg)).thrown
    /\ validateNPCData(Payload(msg)).ret

\* C15: an invocation sends the success notification at most once; it
\* names the descriptor's name and is sent when the character, every
\* attribute and the ability are in the store; no invocation in which a
\* write failed or validation failed sends it.
C15_SuccessNoticeLastAndOnce ==
    last.ran
    => /\ Count(NewChat, IsSuccessNotice) <= 1
       /\ (StoreFailed \/ ~PassesValidation(last.msg))
          => Count(NewChat, IsSuccessNotice) = 0
       /\ Count(NewChat, IsSuccessNotice) = 1
          => LET name == Payload(last.msg).v["name"]
             IN /\ Len(NewChat) = 1 /\ NewLogs = <<>>
                /\ name.k = "str"
                   => NewChat[1].text = <<"/w gm ", "NPC ", name.v, " has been created!">>
                /\ last.sent = <<Len(store)>>
                /\ Len(NewRecords) = Len(Replay.store) - Len(last.store0)
                /\ Len(NewRecords) = last.calls
                /\ IsCharacter(NewRecords[1])
                /\ IsAbility(NewRecords[Len(NewRecords)])

C15_Witness ==
    /\ last.ran
    /\ last.msg.content = <<Cmd, Sp, Doc(Grak)>>
    /\ NewChat = <<[who |-> Speaker,
                    text |-> <<"/w gm ", "NPC ", "Grak", " has been created!">>]>>
    /\ Len(NewRecords) = 21
    /\ last.sent = <<Len(store)>>

\* the character record an invocation is to create for a message
IsCharacterOf(r, msg) ==
    /\ IsCharacter(r)
    /\ r.props.name = Payload(msg).v["name"]
    /\ r.props.controlledby = msg.playerid

\* C16 (as claimed): an invocation that passes validation creates exactly
\* one character record, named as the descriptor and controlled by the
\* requesting player; one that fails parsing or validation creates none.
C16_OneCharacterPerValidCommand ==
    last.ran
    => /\ PassesValidation(last.msg)
          => /\ Count(NewRecords, IsCharacter) = 1
             /\ IsCharacterOf(NewRecords[1], last.msg)
       /\ ~PassesValidation(last.msg) => Count(NewRecords, IsCharacter) = 0

\* C16 (amended): an invocation that passes validation makes exactly one
\* write of a character, first of its writes; when the store accepts it the
\* invocation has created exactly one character record, named as the
\* descriptor and controlled by the requesting player, and when the store
\* rejects it none. One that fails parsing or validation creates none.
C16_OneCharacterUnlessRejected ==
    last.ran
    => /\ (PassesValidation(last.msg) /\ last.failAt # 1)
          => /\ Count(NewRecords, IsCharacter) = 1
             /\ IsCharacterOf(NewRecords[1], last.msg)
       /\ (PassesValidation(last.msg) /\ last.failAt = 1)
          => /\ NewRecords = <<>>
             /\ last.calls = 1
       /\ ~PassesValidation(last.msg)
          => /\ NewRecords = <<>>
             /\ last.calls = 0

\* a valid command of the second player whose later write was rejected
C16_Witness ==
    /\ last.ran
    /\ last.msg.playerid = "-Mplayer2"
    /\ PassesValidation(last.msg)
    /\ last.failAt > 1
    /\ StoreFailed
    /\ Count(NewRecords, IsCharacter) = 1
    /\ NewRecords[1].props = [name |-> Str("Grak"), controlledby |-> "-Mplayer2"]

\* C17: the handler only adds records. Whatever the outcome of an
\* invocation, the records the store held before it are still there, at
\* their places and unchanged; the records of the campaign at start too.
C17_OnlyAdds ==
    /\ Len(store) >= Len(last.store0)
    /\ SubSeq(store, 1, Len(last.store0)) = last.store0
    /\ Len(store) >= Len(InitialStore)
    /\ SubSeq(store, 1, Len(InitialStore)) = InitialStore

\* a second command adding to a store that holds the records of a first
C17_Witness ==
    /\ delivered = 2
    /\ Len(last.store0) > Len(InitialStore)
    /\ Len(store) > Len(last.store0)
    /\ Succeeded
    /\ \A i \in 1..Len(last.store0) : store[i] = last.store0[i]

\* the strings of a list with a comma between each two, and no space
RECURSIVE CommaSeparated(_)
CommaSeparated(strs) ==
    IF strs = <<>> THEN <<>>
    ELSE IF Len(strs) = 1 THEN <<strs[1].v>>
    ELSE <<strs[1].v, ",">> \o CommaSeparated(Tail(strs))

\* C18: a successful command creates exactly one ability record, named
\* "Background & Personality", last of its records; for a background and
\* traits that are strings its text is "Background: ", the background,
\* "\n\n", "Personality Traits: ", the traits with a comma and no space
\* between them, "\n\n".
C18_AbilityText ==
    (last.ran /\ Succeeded)
    => LET d == Payload(last.msg).v
           ability == NewRecords[Len(NewRecords)]
       IN /\ Count(NewRecords, IsAbility) = 1
          /\ IsAbility(ability)
          /\ ability.props.name = <<"Background & Personality">>
          /\ ability.props.description.k = "text"
          /\ (/\ d["background"].k = "str"
              /\ d["personality_traits"].k = "list"
              /\ \A i \in 1..Len(d["personality_traits"].v) :
                    d["personality_traits"].v[i].k = "str")
             => ability.props.description.v
                  = <<"Background: ", d["background"].v, "\n\n", "Personality Traits: ">>
                    \o CommaSeparated(d["personality_traits"].v) \o <<"\n\n">>

C18_Witness ==
    /\ last.ran /\ Succeeded
    /\ last.msg.content = <<Cmd, Sp, Doc(Grak)>>
    /\ NewRecords[Len(NewRecords)].props.description.v
         = <<"Background: ", "Former gladiator", "\n\n",
             "Personality Traits: ", "Gruff", ",", "Loyal", "\n\n">>

IsScalar(r) == r.type = "attribute" /\ Len(r.props.name) = 1
IsBasicScalar(r) ==
    IsScalar(r) /\ \E i \in 1..Len(scalarAttributes) : r.props.name = <<scalarAttributes[i]>>
IsLateScalar(r) ==
    IsScalar(r) /\ r.props.name[1] \in {"appearance", "background", "personality_traits"}
IsListRow(r) == IsAnyRow(r) /\ Group(r) \in {"equipment", "skills", "languages"}

\* the place of a record in the order as claimed, and in the order of the code
ClaimedRank(r) ==
    CASE IsCharacter(r) -> 0
      [] IsScalar(r) -> 1
      [] IsListRow(r) -> 2
      [] IsActionRow(r) -> 3
      [] OTHER -> 4
Rank(r) ==
    CASE IsCharacter(r) -> 0
      [] IsBasicScalar(r) -> 1
      [] IsListRow(r) -> 2
      [] IsLateScalar(r) -> 3
      [] IsActionRow(r) -> 4
      [] OTHER -> 5

\* C19 (as claimed): an invocation creates all scalar attribute records
\* (race, class, level, the six ability scores, appearance, background,
\* personality traits) before its first repeating-list record, all
\* repeating-list records before its first action record, and all action
\* records before the ability record.
C19_ScalarsBeforeLists ==
    last.ran
    => \A i, j \in 1..Len(NewRecords) :
          i < j => ClaimedRank(NewRecords[i]) <= ClaimedRank(NewRecords[j])

\* C19 (amended): an invocation creates the attribute records of race,
\* class, level and the six ability scores before its first repeating-list
\* record, all repeating-list records before the records of appearance,
\* background and personality traits, these before its first action
\* record, and all action records before the ability record.
C19_CreationOrder ==
    last.ran
    => /\ \A i, j \in 1..Len(NewRecords) :
             i < j => Rank(NewRecords[i]) <= Rank(NewRecords[j])
       /\ \A i \in 1..Len(NewRecords) :
             Rank(NewRecords[i]) = 5 => IsAbility(NewRecords[i])

\* the example: list rows between charisma and appearance
C19_Witness ==
    /\ last.ran /\ Succeeded
    /\ last.msg.content = <<Cmd, Sp, Doc(Grak)>>
    /\ NewRecords[10].props.name = <<"charisma">>
    /\ IsListRow(NewRecords[11])
    /\ IsListRow(NewRecords[15])
    /\ NewRecords[16].props.name = <<"appearance">>
    /\ NewRecords[18].props.name = <<"personality_traits">>
    /\ IsActionRow(NewRecords[19])
    /\ IsAbility(NewRecords[21])

RowsOf(recs, group) == SelectSeq(recs, LAMBDA r : IsRow(r, group))
Currents(recs) == [i \in 1..Len(recs) |-> recs[i].props.current]
IsPrefix(s, t) == Len(s) <= Len(t) /\ s = SubSeq(t, 1, Len(s))
\* name and description of each action, in the order of the list
RECURSIVE Flatten(_)
Flatten(actions) ==
    IF actions = <<>> THEN <<>>
    ELSE <<Get(actions[1], "name"), Get(actions[1], "description")>>
         \o Flatten(Tail(actions))

\* C20: for each of equipment, skills and languages the records of the
\* group hold the elements of the list, one record an element, in the
\* order of the list: all of them when the command succeeds, the first of
\* them when it is cut short. The action records hold name then description
\* of each action in the order of the actions list.
C20_ListOrderKept ==
    (last.ran /\ PassesValidation(last.msg))
    => LET d == Payload(last.msg).v
       IN /\ \A g \in {"equipment", "skills", "languages"} :
                LET rows == RowsOf(NewRecords, g)
                IN /\ \A i \in 1..Len(rows) :
                         /\ rows[i].props.name[1] = "repeating"
                         /\ rows[i].props.name[4] = "name"
                   /\ d[g].k = "list" => IsPrefix(Currents(rows), d[g].v)
                   /\ d[g].k # "list" => rows = <<>>
                   /\ Succeeded => Currents(rows) = d[g].v
          /\ LET rows == RowsOf(NewRecords, "npcaction")
             IN /\ \A i \in 1..Len(rows) :
                      rows[i].props.name[4]
                        = (IF i % 2 = 1 THEN "name" ELSE "description")
                /\ d["actions"].k = "list"
                   => IsPrefix(Currents(rows), Flatten(d["actions"].v))
                /\ d["actions"].k # "list" => rows = <<>>
                /\ Succeeded => Currents(rows) = Flatten(d["actions"].v)

\* the example: two equipment rows and two language rows in list order
C20_Witness ==
    /\ last.ran /\ Succeeded
    /\ last.msg.content = <<Cmd, Sp, Doc(Grak)>>
    /\ Currents(RowsOf(NewRecords, "equipment")) = <<Str("Axe"), Str("Shield")>>
    /\ Currents(RowsOf(NewRecords, "skills")) = <<Str("Athletics")>>
    /\ Currents(RowsOf(NewRecords, "languages")) = <<Str("Common"), Str("Orcish")>>
    /\ Currents(RowsOf(NewRecords, "npcaction"))
         = <<Str("Slam"), Str("2d6 bludgeoning")>>

\* the number of elements the code can visit in a field: those of a list
LenOf(val) == IF val.k = "list" THEN Len(val.v) ELSE 0
IsValidationNotice(m) == m.text = ValidationMessage
IsFailureNotice(m) == Len(m.text) >= 2 /\ m.text[2] = "Error creating NPC: "

\* C21: every accepted invocation ends, after at most 14 + N + M + K + 2 * A
\* createObj calls for a descriptor whose equipment, skills, languages and
\* actions hold N, M, K and A elements (none at all when no descriptor was
\* decoded or validated), in one of three outcomes: success reported,
\* validation error reported, failure reported.
C21_BoundedWork ==
    (last.ran /\ Accepted(last.msg))
    => /\ ~last.escaped
       /\ Len(NewChat) = 1
       /\ \/ IsSuccessNotice(NewChat[1])
          \/ IsValidationNotice(NewChat[1])
          \/ IsFailureNotice(NewChat[1])
       /\ ~PassesValidation(last.msg) => last.calls = 0
       /\ PassesValidation(last.msg)
          => LET d == Payload(last.msg).v
             IN last.calls <= 14 + LenOf(d["equipment"]) + LenOf(d["skills"])
                                 + LenOf(d["languages"]) + 2 * LenOf(d["actions"])

\* the longest list of actions, every write made
C21_Witness ==
    /\ last.ran /\ Succeeded
    /\ Payload(last.msg).k = "obj"
    /\ LenOf(Get(Payload(last.msg), "actions")) = MaxLen
    /\ last.calls = 14 + 2 * MaxLen

\* the last message handled by a script that has handled nothing before,
\* the store rejecting the same write
FromStart ==
    handleInput([store |-> InitialStore, chat |-> <<>>, logs |-> <<>>,
                 sent |-> <<>>, calls |-> 0, rcalls |-> 0, failAt |-> last.failAt,
                 rnd |-> [i \in 1..(5 * MaxLen) |-> i],
                 thrown |-> FALSE, error |-> <<>>], last.msg)

\* two records alike but for the ids the host and Math.random gave
Alike(r, s) ==
    /\ r.type = s.type
    /\ CASE r.type = "character" -> r.props = s.props
         [] r.type = "ability" ->
              /\ r.props.name = s.props.name
              /\ r.props.description = s.props.description
         [] OTHER ->
              /\ Len(r.props.name) = Len(s.props.name)
              /\ \A n \in 1..Len(r.props.name) :
                    n # 3 => r.props.name[n] = s.props.name[n]
              /\ r.props.current = s.props.current

\* C22: the handler keeps nothing between invocations. Whatever was
\* handled before, a message gets the notification, the log entry and the
\* records (ids and row discriminators apart) that it gets from a script
\* that has handled nothing yet.
C22_NoRetainedState ==
    last.ran
    => LET F == FromStart
           made == SubSeq(F.store, Len(InitialStore) + 1, Len(F.store))
       IN /\ NewChat = F.chat
          /\ NewLogs = F.logs
          /\ last.calls = F.calls
          /\ Len(NewRecords) = Len(made)
          /\ \A i \in 1..Len(made) : Alike(NewRecords[i], made[i])

\* the example handled after another command had succeeded
C22_Witness ==
    /\ delivered = 2
    /\ last.ran /\ Succeeded
    /\ last.msg.content = <<Cmd, Sp, Doc(Grak)>>
    /\ Count(last.store0, IsAbility) = 1
    /\ last.chat0 # <<>>
    /\ Len(NewRecords) = Len(FromStart.store) - Len(InitialStore)

\* C23: an accepted command gets exactly one notification in all, which is
\* the success, the validation error or the failure message; a message
\* that is ignored, or that arrives before the handler is registered, gets
\* none; no invocation sends a success and an error.
C23_OneNotification ==
    /\ (last.ran /\ Accepted(last.msg))
       => /\ Len(NewChat) = 1
          /\ Count(NewChat, IsSuccessNotice) + Count(NewChat, IsValidationNotice)
               + Count(NewChat, IsFailureNotice) = 1
    /\ (~last.ran \/ ~Accepted(last.msg)) => NewChat = <<>>
    /\ Count(NewChat, IsSuccessNotice) = 0
       \/ Count(NewChat, IsValidationNotice) + Count(NewChat, IsFailureNotice) = 0

\* the store rejecting the last write, that of the ability: one failure
\* message and no success
C23_Witness ==
    /\ StoreFailed
    /\ Count(NewRecords, IsActionRow) >= 2
    /\ Count(NewRecords, IsAbility) = 0
    /\ Len(NewChat) = 1
    /\ IsFailureNotice(NewChat[1])
    /\ NewChat[1].text = FailureMessage(StoreError)

\* what a record is, its ids apart: the field or group, and for a row its
\* suffix
Label(r) ==
    CASE IsCharacter(r) -> <<"character", "">>
      [] IsAbility(r) -> <<"ability", "">>
      [] IsScalar(r) -> <<r.props.name[1], "">>
      [] OTHER -> <<r.props.name[2], r.props.name[4]>>
Labels(recs) == [i \in 1..Len(recs) |-> Label(recs[i])]

\* the creation sequence of the code for a validated descriptor
CreationSequence(d) ==
    <<<<"character", "">>,
      <<"race", "">>, <<"class", "">>, <<"level", "">>,
      <<"strength", "">>, <<"dexterity", "">>, <<"constitution", "">>,
      <<"intelligence", "">>, <<"wisdom", "">>, <<"charisma", "">>>>
    \o [i \in 1..LenOf(d["equipment"]) |-> <<"equipment", "name">>]
    \o [i \in 1..LenOf(d["skills"]) |-> <<"skills", "name">>]
    \o [i \in 1..LenOf(d["languages"]) |-> <<"languages", "name">>]
    \o <<<<"appearance", "">>, <<"background", "">>, <<"personality_traits", "">>>>
    \o [i \in 1..(2 * LenOf(d["actions"])) |->
          <<"npcaction", IF i % 2 = 1 THEN "name" ELSE "description">>]
    \o <<<<"ability", "">>>>

\* C24: what an invocation has created, cut short or not, is a prefix of
\* the creation sequence of the code: character; race, class, level,
\* strength, dexterity, constitution, intelligence, wisdom, charisma; the
\* equipment, skills and languages rows; appearance, background,
\* personality_traits; name row then description row of each action; the
\* ability. A successful invocation has created the whole of it.
C24_PrefixOfCreationSequence ==
    last.ran
    => /\ ~PassesValidation(last.msg) => NewRecords = <<>>
       /\ PassesValidation(last.msg)
          => LET whole == CreationSequence(Payload(last.msg).v)
             IN /\ IsPrefix(Labels(NewRecords), whole)
                /\ Succeeded => Labels(NewRecords) = whole

\* the example cut short at the background attribute
C24_Witness ==
    /\ StoreFailed
    /\ last.msg.content = <<Cmd, Sp, Doc(Grak)>>
    /\ Len(NewRecords) = 16
    /\ Label(NewRecords[15]) = <<"languages", "name">>
    /\ Label(NewRecords[16]) = <<"appearance", "">>

\* C25: an accepted command whose payload decodes to a value that is no
\* object creates nothing and gets exactly one notification, a whisper to
\* the GM: the validation error for a number, a string or an array, and
\* for null the failure message, with one log entry.
C25_NonObjectPayloads ==
    (last.ran /\ Decoded(last.msg) /\ Payload(last.msg).k # "obj")
    => /\ NewRecords = <<>>
       /\ last.calls = 0
       /\ Len(NewChat) = 1
       /\ Audience(NewChat[1].text) = "gm"
       /\ Payload(last.msg).k \in {"num", "str", "list"}
          => /\ NewChat[1].text = ValidationMessage
             /\ NewLogs = <<>>
       /\ Payload(last.msg).k = "null"
          => /\ IsFailureNotice(NewChat[1])
             /\ Len(NewLogs) = 1
             /\ SubSeq(NewLogs[1], 2, Len(NewLogs[1]))
                  = SubSeq(NewChat[1].text, 3, Len(NewChat[1].text))

C25_Witness ==
    /\ last.ran
    /\ last.msg.content = <<Cmd, Sp, Doc(Null)>>
    /\ NewRecords = <<>>
    /\ NewChat = <<[who |-> "NPC Creator",
                    text |-> <<"/w gm ", "Error creating NPC: ",
                               "Cannot read properties of ", "null",
                               " (reading 'hasOwnProperty')">>]>>
    /\ Len(NewLogs) = 1

\* the strings of a list with sep between each two
RECURSIVE Separated(_, _)
Separated(strs, sep) ==
    IF strs = <<>> THEN <<>>
    ELSE IF Len(strs) = 1 THEN <<strs[1].v>>
    ELSE <<strs[1].v, sep>> \o Separated(Tail(strs), sep)

\* the personality_traits attribute and the ability of the last delivery
TraitsAttribute ==
    LET i == CHOOSE n \in 1..Len(NewRecords) :
                 IsScalar(NewRecords[n]) /\ NewRecords[n].props.name = <<"personality_traits">>
    IN NewRecords[i].props.current.v
\* what follows "Personality Traits: " in the ability's text, up to the
\* closing blank line
TraitsInAbility ==
    LET text == NewRecords[Len(NewRecords)].props.description.v
        i == CHOOSE n \in 1..Len(text) : text[n] = "Personality Traits: "
    IN SubSeq(text, i + 1, Len(text) - 1)

HasStringTraits(data) ==
    /\ data.k = "obj"
    /\ "personality_traits" \in DOMAIN data.v
    /\ data.v["personality_traits"].k = "list"
    /\ \A i \in 1..Len(data.v["personality_traits"].v) :
          data.v["personality_traits"].v[i].k = "str"

\* C26 (as claimed): after a successful command the text of the
\* personality_traits attribute is the text of the traits in the ability.
C26_SameRendering ==
    (last.ran /\ Succeeded) => TraitsAttribute = TraitsInAbility

\* C26 (amended): after a successful command the personality_traits
\* attribute holds the traits with ", " between each two and the ability
\* holds them with "," between each two; the two texts are one and the
\* same exactly when the list has fewer than two traits.
C26_RenderingsDifferBySeparator ==
    (last.ran /\ Succeeded /\ HasStringTraits(Payload(last.msg)))
    => LET traits == Payload(last.msg).v["personality_traits"].v
       IN /\ TraitsAttribute = Separated(traits, ", ")
          /\ TraitsInAbility = Separated(traits, ",")
          /\ (TraitsAttribute = TraitsInAbility) <=> (Len(traits) < 2)

C26_Witness ==
    /\ last.ran /\ Succeeded
    /\ last.msg.content = <<Cmd, Sp, Doc(Grak)>>
    /\ TraitsAttribute = <<"Gruff", ", ", "Loyal">>
    /\ TraitsInAbility = <<"Gruff", ",", "Loyal">>

Loaded == <<"NPC Creation Script loaded">>
IsLoaded(entry) == entry = Loaded

\* the registration, as C27 has it: nothing is heard before ready; ready
\* registers handleInput once and logs that the script is loaded
RegisteredOnReady ==
    /\ handlers \in {0, 1}
    /\ handlers = 0 => /\ store = InitialStore
                       /\ chat = <<>>
                       /\ logs = <<>>
    /\ ~last.ran => /\ store = InitialStore
                    /\ chat = <<>>
    /\ last.ran => handlers = 1
    /\ handlers = 1 => /\ logs # <<>>
                       /\ logs[1] = Loaded
                       /\ Count(logs, IsLoaded) = 1

\* C27 (as claimed): the registration above, and after the one ready event
\* each accepted valid command creates exactly one character.
C27_OneCharacterAfterReady ==
    /\ RegisteredOnReady
    /\ (last.ran /\ PassesValidation(last.msg))
       => Count(NewRecords, IsCharacter) = 1

\* C27 (amended): the registration above, and after the one ready event
\* each accepted valid command makes handleInput run once: it creates
\* exactly one character when the store accepts the write of the
\* character, and none when the store rejects it.
C27_OneInvocationAfterReady ==
    /\ RegisteredOnReady
    /\ (last.ran /\ PassesValidation(last.msg) /\ last.failAt # 1)
       => Count(NewRecords, IsCharacter) = 1
    /\ (last.ran /\ PassesValidation(last.msg) /\ last.failAt = 1)
       => Count(NewRecords, IsCharacter) = 0

\* the example arrived before ready: nothing created, nothing sent
C27_Witness ==
    /\ ~last.ran
    /\ delivered = 1
    /\ last.msg = [type |-> "api", content |-> <<Cmd, Sp, Doc(Grak)>>,
                   playerid |-> "-Mplayer1"]
    /\ handlers = 1
    /\ store = InitialStore
    /\ chat = <<>>
    /\ logs = <<Loaded>>

\* an api message whose content goes on right after the command token
Glued(msg) ==
    /\ msg.type = "api"
    /\ Len(msg.content) >= 2
    /\ IsLit(msg.content[1], "!create-npc")
    /\ ~IsLit(msg.content[2], " ")
IsFormatError(m) ==
    /\ Len(m.text) >= 3
    /\ m.text[2] = "Error creating NPC: "
    /\ m.text[3] = "Invalid JSON format. Please check your input. Error: "

\* C28: the command is matched by prefix. An api message whose content
\* goes on right after "!create-npc" is accepted; what follows the token
\* is the payload text from its first character; the command gets exactly
\* one notification, the format error unless that text is valid JSON.
C28_PrefixMatch ==
    (last.ran /\ Glued(last.msg))
    => /\ Accepted(last.msg)
       /\ PayloadText(last.msg) # <<>>
       /\ PayloadText(last.msg)[1] = last.msg.content[2]
       /\ Len(NewChat) = 1
       /\ IsFormatError(NewChat[1]) <=> Malformed(last.msg)

C28_Witness ==
    /\ last.ran
    /\ last.msg.content = <<Cmd, Lit("x"), Doc(Plain)>>
    /\ NewRecords = <<>>
    /\ NewChat = <<[who |-> "NPC Creator",
                    text |-> <<"/w gm ", "Error creating NPC: ",
                               "Invalid JSON format. Please check your input. Error: ",
                               "Unexpected token ", "x">>]>>

\* the command token, spaces, one JSON text, and spaces at most after it
Framed(content) ==
    /\ Len(content) >= 3
    /\ IsLit(content[1], "!create-npc")
    /\ IsLit(content[2], " ")
    /\ Cardinality({i \in 1..Len(content) : content[i].t = "json"}) = 1
    /\ \A i \in 2..Len(content) : content[i].t = "json" \/ IsLit(content[i], " ")
TheDocument(content) ==
    content[CHOOSE i \in 1..Len(content) : content[i].t = "json"].j

\* C29: extractNPCData takes away the leading command token and the
\* spaces around the JSON text and nothing else: it decodes to the value of
\* that text, a string value that holds "!create-npc" included; and the
\* character's name and every scalar attribute of a successful command
\* hold the decoded value of their field as it is.
C29_PayloadUntouched ==
    (last.ran /\ last.msg.type = "api" /\ Framed(last.msg.content))
    => LET J == TheDocument(last.msg.content)
       IN /\ extractNPCData(last.msg.content)
               = [thrown |-> FALSE, value |-> J, error |-> <<>>]
          /\ Succeeded
             => /\ NewRecords[1].props.name = J.v["name"]
                /\ \A i \in 1..Len(NewRecords) :
                      (IsScalar(NewRecords[i])
                       /\ NewRecords[i].props.name # <<"personality_traits">>)
                      => NewRecords[i].props.current
                           = J.v[NewRecords[i].props.name[1]]

\* a background that is the command token itself
C29_Witness ==
    /\ last.ran /\ Succeeded
    /\ last.msg.content = <<Cmd, Sp, Doc(Quoting)>>
    /\ \E i \in 1..Len(NewRecords) :
          /\ IsScalar(NewRecords[i])
          /\ NewRecords[i].props.name = <<"background">>
          /\ NewRecords[i].props.current = Str("!create-npc")
    /\ \E i \in 1..Len(NewRecords) :
          /\ IsScalar(NewRecords[i])
          /\ NewRecords[i].props.name = <<"level">>
          /\ NewRecords[i].props.current = Num(3)

====
